---- MODULE Spec2Model ----
(***************************************************************************)
(* Deadline / urgency / alert lifecycle of the legal-case tracker:         *)
(*   src/models_casos.py        Caso, Alerta, MovimientoCaso               *)
(*   src/celery_config_utils.py the pre_save / post_save signal receivers  *)
(*   src/celery_tasks.py        the Celery tasks and the beat schedule     *)
(*   src/urls_views.py          the views of cases, alerts and documents   *)
(*   src/admin_casos.py         AlertaAdmin                                *)
(*   src/forms_casos.py         CasoForm, AlertaForm                       *)
(*                                                                         *)
(* Time is counted in seconds from an arbitrary midnight; a date is the    *)
(* number of whole days since that midnight.  date.today() and             *)
(* timezone.now().date() are read off the same calendar.                   *)
(***************************************************************************)
EXTENDS Integers, FiniteSets, Sequences, Bags, TLC

VARIABLES
    now,          \* timezone.now(), in seconds
    ticks,        \* number of clock advances so far (bounds the run)
    casos,        \* table Caso:   pk -> row
    alertas,      \* table Alerta: pk -> row
    movimientos,  \* table MovimientoCaso, in insertion order
    documentos,   \* table DocumentoCaso, in insertion order (pk = position)
    procesos,     \* executions in progress that are not one step: scans, saves before post_save
    seqCaso,      \* last pk handed out for Caso
    seqAlerta,    \* last pk handed out for Alerta
    tareas,       \* bag of enviar_email_alerta task instances known to the broker
    marcas,       \* per alert pk: executions of marcar_como_enviada since it was last reset to unsent
    ret           \* what the last operation did and returned

vars == <<now, ticks, casos, alertas, movimientos, documentos, procesos, seqCaso, seqAlerta, tareas, marcas, ret>>

----------------------------------------------------------------------------
(* Bounds of the model *)

MaxCasos == 2
MaxAlertas == 2
MaxTareas == 2
MaxTicks == 4
MaxDocumentos == 1

----------------------------------------------------------------------------
(* Program constants *)

SegDia == 86400
max_retries == 3
countdown == 300
dias_anticipacion == 7
DiasRetencion == 90
MinutosAlertaTarea == 30
HorasAlertaSenal == 1
UmbralUrgente == 7
UmbralCritico == 3
DiasGrafico == 30
HorasAlertaAdmin == 1

\* Optional values: None is the empty tuple, a present value v is <<v>>.
Ninguno == <<>>
Algun(v) == <<v>>

\* django.contrib.auth User rows the requests come from (never modified here).
Usuarios ==
    [ ana  |-> [is_staff |-> FALSE, email |-> "ana@estudio.cl"],
      beto |-> [is_staff |-> FALSE, email |-> ""],
      root |-> [is_staff |-> TRUE,  email |-> "root@estudio.cl"] ]

UsuarioIds == DOMAIN Usuarios

\* Inputs enumerated for the operations
Responsables == {"ana", "beto"}
EstadosEntrada == {"EN_TRAMITACION", "SUSPENDIDO"}
DiasEntrada == {0, 8}

\* date.today() / timezone.now().date()
Fecha(t) == t \div SegDia
Hoy == Fecha(now)

----------------------------------------------------------------------------
(* Small helpers on tables (functions from pk to row) *)

Poner(tabla, pk, fila) == [k \in DOMAIN tabla \cup {pk} |-> IF k = pk THEN fila ELSE tabla[k]]
Quitar(tabla, pks) == [k \in DOMAIN tabla \ pks |-> tabla[k]]

----------------------------------------------------------------------------
(* models.py: Caso *)

\* Caso.dias_hasta_vencimiento: None without a due date, else (due - today).days
dias_hasta_vencimiento(fecha_vencimiento, hoy) ==
    IF fecha_vencimiento # Ninguno THEN Algun(fecha_vencimiento[1] - hoy) ELSE Ninguno

\* Fault variant of estado_vencimiento: the critical tier ends one day late
estado_vencimiento_tramo(fecha_vencimiento, hoy) ==
    LET dias == dias_hasta_vencimiento(fecha_vencimiento, hoy) IN
    IF dias = Ninguno THEN "sin-fecha"
    ELSE IF dias[1] < 0 THEN "vencido"
    ELSE IF dias[1] <= UmbralCritico + 1 THEN "critico"
    ELSE IF dias[1] <= UmbralUrgente THEN "urgente"
    ELSE "normal"

\* Caso.estado_vencimiento: the 'estado' key of the returned dict
estado_vencimiento(fecha_vencimiento, hoy) ==
    LET dias == dias_hasta_vencimiento(fecha_vencimiento, hoy) IN
    IF dias = Ninguno THEN "sin-fecha"
    ELSE IF dias[1] < 0 THEN "vencido"
    ELSE IF dias[1] <= UmbralCritico THEN "critico"
    ELSE IF dias[1] <= UmbralUrgente THEN "urgente"
    ELSE "normal"

\* The value Caso.save leaves in instance.urgente (previo when there is no due date)
CalculaUrgente(fecha_vencimiento, hoy, previo) ==
    IF fecha_vencimiento # Ninguno
    THEN fecha_vencimiento[1] - hoy <= UmbralUrgente
    ELSE previo

\* Caso.save, up to the call of super().save()
Caso_save(inst, hoy) ==
    [inst EXCEPT !.urgente = CalculaUrgente(inst.fecha_vencimiento, hoy, @)]

\* Fault variant of marcar_urgente_automatico: strict comparison
marcar_urgente_estricto(inst, hoy) ==
    IF inst.fecha_vencimiento # Ninguno
    THEN [inst EXCEPT !.urgente = (inst.fecha_vencimiento[1] - hoy) < 7]
    ELSE inst

\* signals.py: pre_save receiver, run inside super().save() before the row is written
marcar_urgente_automatico(inst, hoy) ==
    IF inst.fecha_vencimiento # Ninguno
    THEN [inst EXCEPT !.urgente = (inst.fecha_vencimiento[1] - hoy) <= 7]
    ELSE inst

\* The row super().save() writes; fecha_vencimiento is a NOT NULL column
FilaCaso(inst, hoy) == marcar_urgente_automatico(Caso_save(inst, hoy), hoy)

\* Fault variant of DebeCrearAlertaAutomatica: the 'created' test is missing
DebeCrearAlertaSiempre(inst, created, hoy) ==
    /\ inst.fecha_vencimiento # Ninguno
    /\ inst.estado = "EN_TRAMITACION"
    /\ inst.fecha_vencimiento[1] - hoy <= 7
\* Fault variant of DebeCrearAlertaAutomatica: strict comparison
DebeCrearAlertaEstricto(inst, created, hoy) ==
    /\ created
    /\ inst.fecha_vencimiento # Ninguno
    /\ inst.estado = "EN_TRAMITACION"
    /\ inst.fecha_vencimiento[1] - hoy < 7

\* signals.py: crear_alerta_automatica, the condition under which it creates an alert
DebeCrearAlertaAutomatica(inst, created, hoy) ==
    /\ created
    /\ inst.fecha_vencimiento # Ninguno
    /\ inst.estado = "EN_TRAMITACION"
    /\ inst.fecha_vencimiento[1] - hoy <= 7

\* signals.py: the Alerta row crear_alerta_automatica creates (model defaults filled in)
AlertaDeSenal(pk, inst, t) ==
    [ caso |-> pk, tipo |-> "VENCIMIENTO",
      mensaje |-> [origen |-> "senal", dias |-> inst.fecha_vencimiento[1] - Fecha(t)],
      fecha_alerta |-> t + HorasAlertaSenal * 3600,
      enviada |-> FALSE, fecha_envio |-> Ninguno, leida |-> FALSE,
      enviar_email |-> TRUE,
      email_destinatario |-> Usuarios[inst.usuario_responsable].email,
      fecha_creacion |-> t,
      usuario_creador |-> inst.usuario_responsable ]

\* signals.py: the MovimientoCaso row crear_movimiento_inicial creates
MovimientoInicial(pk, inst, t) ==
    [ caso |-> pk, descripcion |-> "Caso creado", usuario |-> inst.usuario_responsable,
      importante |-> TRUE, fecha_movimiento |-> t ]

----------------------------------------------------------------------------
Init ==
    /\ now = SegDia - countdown
    /\ ticks = 0
    /\ casos = <<>>
    /\ alertas = <<>>
    /\ movimientos = <<>>
    /\ documentos = <<>>
    /\ procesos = {}
    /\ seqCaso = 0
    /\ seqAlerta = 0
    /\ tareas = EmptyBag
    /\ marcas = <<>>
    /\ ret = [op |-> "inicio"]

\* The clock advances
Tick(salto) ==
    /\ ticks < MaxTicks
    /\ now' = now + salto
    /\ ticks' = ticks + 1
    /\ ret' = [op |-> "tick"]
    /\ UNCHANGED <<casos, alertas, movimientos, documentos, procesos, seqCaso, seqAlerta, tareas, marcas>>

\* Caso(...).save() of a new instance, with its pre_save and post_save receivers
CrearCaso(usuario, estado, fecha_vencimiento) ==
    LET pk == seqCaso + 1
        inst == FilaCaso([estado |-> estado, fecha_vencimiento |-> fecha_vencimiento,
                          usuario_responsable |-> usuario, urgente |-> FALSE], Hoy)
        conAlerta == DebeCrearAlertaAutomatica(inst, TRUE, Hoy)
    IN
    /\ seqCaso < MaxCasos
    /\ conAlerta => seqAlerta < MaxAlertas
    /\ IF fecha_vencimiento = Ninguno
       THEN /\ ret' = [op |-> "Caso.save", created |-> TRUE, resultado |-> "IntegrityError",
                       pk |-> 0, urgente |-> inst.urgente]
            /\ UNCHANGED <<casos, alertas, movimientos, documentos, procesos, seqCaso, seqAlerta, marcas>>
       ELSE /\ casos' = Poner(casos, pk, inst)
            /\ seqCaso' = pk
            /\ movimientos' = Append(movimientos, MovimientoInicial(pk, inst, now))
            /\ IF conAlerta
               THEN /\ alertas' = Poner(alertas, seqAlerta + 1, AlertaDeSenal(pk, inst, now))
                    /\ seqAlerta' = seqAlerta + 1
                    /\ marcas' = Poner(marcas, seqAlerta + 1, 0)
               ELSE UNCHANGED <<alertas, seqAlerta, marcas>>
            /\ ret' = [op |-> "Caso.save", created |-> TRUE, resultado |-> "ok",
                       pk |-> pk]
    /\ UNCHANGED <<now, ticks, documentos, procesos, tareas>>

\* caso.save() of an existing row after its fields were changed
EditarCaso(pk, estado, fecha_vencimiento) ==
    LET inst == FilaCaso([casos[pk] EXCEPT !.estado = estado,
                                           !.fecha_vencimiento = fecha_vencimiento], Hoy)
        conAlerta == DebeCrearAlertaAutomatica(inst, FALSE, Hoy)
    IN
    /\ pk \in DOMAIN casos
    /\ conAlerta => seqAlerta < MaxAlertas
    /\ IF fecha_vencimiento = Ninguno
       THEN /\ ret' = [op |-> "Caso.save", created |-> FALSE, resultado |-> "IntegrityError",
                       pk |-> pk, urgente |-> inst.urgente]
            /\ UNCHANGED <<casos, alertas, seqAlerta, marcas>>
       ELSE /\ casos' = Poner(casos, pk, inst)
            /\ IF conAlerta
               THEN /\ alertas' = Poner(alertas, seqAlerta + 1, AlertaDeSenal(pk, inst, now))
                    /\ seqAlerta' = seqAlerta + 1
                    /\ marcas' = Poner(marcas, seqAlerta + 1, 0)
               ELSE UNCHANGED <<alertas, seqAlerta, marcas>>
            /\ ret' = [op |-> "Caso.save", created |-> FALSE, resultado |-> "ok",
                       pk |-> pk]
    /\ UNCHANGED <<now, ticks, movimientos, documentos, procesos, seqCaso, tareas>>

----------------------------------------------------------------------------
(* tasks.py: enviar_email_alerta, one task instance per delay() or retry() *)

\* What enviar_email_alerta.delay(pk) puts on the broker
NuevaTarea(pk) ==
    [alerta |-> pk, retries |-> 0, eta |-> Ninguno, pc |-> "cola", intentos |-> 0, fallos |-> 0]

Sacar(t) == tareas (-) SetToBag({t})
Meter(bolsa, t) == bolsa (+) SetToBag({t})

TareasDe(pk) == {t \in BagToSet(tareas) : t.alerta = pk}

\* Fault variant of PuedeReintentar: one retry too many
PuedeReintentarDeMas(retries) == retries <= max_retries

\* self.request.retries < self.max_retries
PuedeReintentar(retries) == retries < max_retries

\* Fault variant of Destinatario: a default address when nobody has one
DestinatarioPorDefecto(pk) ==
    IF alertas[pk].email_destinatario # ""
    THEN alertas[pk].email_destinatario
    ELSE IF Usuarios[casos[alertas[pk].caso].usuario_responsable].email # ""
    THEN Usuarios[casos[alertas[pk].caso].usuario_responsable].email
    ELSE "root@estudio.cl"

\* alerta.email_destinatario or caso.usuario_responsable.email
Destinatario(pk) ==
    IF alertas[pk].email_destinatario # ""
    THEN alertas[pk].email_destinatario
    ELSE Usuarios[casos[alertas[pk].caso].usuario_responsable].email

Resultado(t, resultado) ==
    [op |-> "enviar_email_alerta", alerta |-> t.alerta, resultado |-> resultado,
     retries |-> t.retries, intentos |-> t.intentos, fallos |-> t.fallos]

\* The 'except Exception' branch: retry in 5 minutes, or give up and return "Error: ..."
Excepcion(t, u) ==
    IF PuedeReintentar(t.retries)
    THEN /\ tareas' = Meter(Sacar(t), [u EXCEPT !.retries = @ + 1,
                                                !.eta = Algun(now + countdown),
                                                !.pc = "cola"])
         /\ ret' = Resultado(u, "Retry")
    ELSE /\ tareas' = Sacar(t)
         /\ ret' = Resultado(u, "Error")

\* Fault variant of TareaInicio: the 'enviada' check is missing
TareaInicioSinRevisar(t) ==
    /\ t.pc = "cola"
    /\ t.eta # Ninguno => t.eta[1] <= now
    /\ IF t.alerta \notin DOMAIN alertas
       THEN /\ tareas' = Sacar(t)
            /\ ret' = Resultado(t, "Alerta no encontrada")
       ELSE IF Destinatario(t.alerta) = ""
       THEN /\ tareas' = Sacar(t)
            /\ ret' = Resultado(t, "Sin email destinatario")
       ELSE /\ tareas' = Meter(Sacar(t), [t EXCEPT !.pc = "enviando"])
            /\ ret' = [op |-> "worker", paso |-> "send_mail"]
    /\ UNCHANGED <<now, ticks, casos, alertas, movimientos, documentos, procesos, seqCaso, seqAlerta, marcas>>

\* Fault variant of TareaInicio: Alerta.DoesNotExist falls into the retry branch
TareaInicioReintenta(t) ==
    /\ t.pc = "cola"
    /\ t.eta # Ninguno => t.eta[1] <= now
    /\ IF t.alerta \notin DOMAIN alertas
       THEN Excepcion(t, t)
       ELSE IF alertas[t.alerta].enviada
       THEN /\ tareas' = Sacar(t)
            /\ ret' = Resultado(t, "Alerta ya enviada")
       ELSE IF Destinatario(t.alerta) = ""
       THEN /\ tareas' = Sacar(t)
            /\ ret' = Resultado(t, "Sin email destinatario")
       ELSE /\ tareas' = Meter(Sacar(t), [t EXCEPT !.pc = "enviando"])
            /\ ret' = [op |-> "worker", paso |-> "send_mail"]
    /\ UNCHANGED <<now, ticks, casos, alertas, movimientos, documentos, procesos, seqCaso, seqAlerta, marcas>>
\* A worker takes the task: Alerta.objects.get, the 'enviada' check, the recipient
TareaInicio(t) ==
    /\ t.pc = "cola"
    /\ t.eta # Ninguno => t.eta[1] <= now
    /\ IF t.alerta \notin DOMAIN alertas
       THEN /\ tareas' = Sacar(t)
            /\ ret' = Resultado(t, "Alerta no encontrada")
       ELSE IF alertas[t.alerta].enviada
       THEN /\ tareas' = Sacar(t)
            /\ ret' = Resultado(t, "Alerta ya enviada")
       ELSE IF Destinatario(t.alerta) = ""
       THEN /\ tareas' = Sacar(t)
            /\ ret' = Resultado(t, "Sin email destinatario")
       ELSE /\ tareas' = Meter(Sacar(t), [t EXCEPT !.pc = "enviando"])
            /\ ret' = [op |-> "worker", paso |-> "send_mail"]
    /\ UNCHANGED <<now, ticks, casos, alertas, movimientos, documentos, procesos, seqCaso, seqAlerta, marcas>>

\* send_mail(..., fail_silently=False) returns (ok) or raises
TareaEnviar(t, ok) ==
    /\ t.pc = "enviando"
    /\ IF ok
       THEN /\ tareas' = Meter(Sacar(t), [t EXCEPT !.pc = "marcar", !.intentos = @ + 1])
            /\ ret' = [op |-> "worker", paso |-> "marcar_como_enviada"]
       ELSE Excepcion(t, [t EXCEPT !.intentos = @ + 1, !.fallos = @ + 1])
    /\ UNCHANGED <<now, ticks, casos, alertas, movimientos, documentos, procesos, seqCaso, seqAlerta, marcas>>

\* Fault variant of TareaMarcar: the row is not saved
TareaMarcarSinGuardar(t) ==
    /\ t.pc = "marcar"
    /\ IF t.alerta \in DOMAIN alertas
       THEN /\ tareas' = Sacar(t)
            /\ ret' = Resultado(t, "Email enviado exitosamente")
            /\ UNCHANGED <<alertas, marcas>>
       ELSE /\ Excepcion(t, t)
            /\ UNCHANGED <<alertas, marcas>>
    /\ UNCHANGED <<now, ticks, casos, movimientos, documentos, procesos, seqCaso, seqAlerta>>
\* models.py: Alerta.marcar_como_enviada on the instance the task loaded;
\* save(update_fields=...) raises DatabaseError when the row is gone
TareaMarcar(t) ==
    /\ t.pc = "marcar"
    /\ IF t.alerta \in DOMAIN alertas
       THEN /\ alertas' = [alertas EXCEPT ![t.alerta].enviada = TRUE,
                                          ![t.alerta].fecha_envio = Algun(now)]
            /\ marcas' = [marcas EXCEPT ![t.alerta] = @ + 1]
            /\ tareas' = Sacar(t)
            /\ ret' = Resultado(t, "Email enviado exitosamente")
       ELSE /\ Excepcion(t, t)
            /\ UNCHANGED <<alertas, marcas>>
    /\ UNCHANGED <<now, ticks, casos, movimientos, documentos, procesos, seqCaso, seqAlerta>>

----------------------------------------------------------------------------
(* tasks.py: the periodic tasks *)

\* Fault variant of AlertasPendientes: the enviar_email filter is missing
AlertasPendientesSinFiltro ==
    {pk \in DOMAIN alertas : /\ alertas[pk].enviada = FALSE
                             /\ alertas[pk].fecha_alerta <= now}

\* revisar_alertas_pendientes: the queryset alertas_pendientes
AlertasPendientes ==
    {pk \in DOMAIN alertas : /\ alertas[pk].enviada = FALSE
                             /\ alertas[pk].enviar_email = TRUE
                             /\ alertas[pk].fecha_alerta <= now}

revisar_alertas_pendientes ==
    /\ BagCardinality(tareas) + Cardinality(AlertasPendientes) <= MaxTareas
    /\ tareas' = tareas (+) SetToBag({NuevaTarea(pk) : pk \in AlertasPendientes})
    /\ ret' = [op |-> "revisar_alertas_pendientes",
               contador |-> Cardinality(AlertasPendientes)]
    /\ UNCHANGED <<now, ticks, casos, alertas, movimientos, documentos, procesos, seqCaso, seqAlerta, marcas>>

\* Fault variant of CasosProximos: the estado filter is missing
CasosProximosSinEstado ==
    {c \in DOMAIN casos : casos[c].fecha_vencimiento = Algun(Hoy + dias_anticipacion)}

\* crear_alertas_vencimiento: the queryset casos_proximos
CasosProximos ==
    {c \in DOMAIN casos : /\ casos[c].estado = "EN_TRAMITACION"
                          /\ casos[c].fecha_vencimiento = Algun(Hoy + dias_anticipacion)}

\* Fault variant of TieneAlertaReciente: the window lies in the future
TieneAlertaRecienteSigno(c) ==
    \E pk \in DOMAIN alertas : /\ alertas[pk].caso = c
                               /\ alertas[pk].tipo = "VENCIMIENTO"
                               /\ alertas[pk].fecha_creacion >= now + 1 * SegDia

\* crear_alertas_vencimiento: tiene_alerta
TieneAlertaReciente(c) ==
    \E pk \in DOMAIN alertas : /\ alertas[pk].caso = c
                               /\ alertas[pk].tipo = "VENCIMIENTO"
                               /\ alertas[pk].fecha_creacion >= now - 1 * SegDia

\* crear_alertas_vencimiento: the Alerta row it creates for a case
AlertaDeTarea(c, t) ==
    [ caso |-> c, tipo |-> "VENCIMIENTO",
      mensaje |-> [origen |-> "tarea", dias |-> dias_anticipacion],
      fecha_alerta |-> t + MinutosAlertaTarea * 60,
      enviada |-> FALSE, fecha_envio |-> Ninguno, leida |-> FALSE,
      enviar_email |-> TRUE,
      email_destinatario |-> Usuarios[casos[c].usuario_responsable].email,
      fecha_creacion |-> t,
      usuario_creador |-> casos[c].usuario_responsable ]

\* The loop visits the cases in the Meta ordering: same due date, newest first
crear_alertas_vencimiento ==
    LET nuevos == {c \in CasosProximos : ~TieneAlertaReciente(c)}
        pkDe(c) == seqAlerta + 1 + Cardinality({x \in nuevos : x > c})
        casoDe(pk) == CHOOSE c \in nuevos : pkDe(c) = pk
        pks == (seqAlerta + 1) .. (seqAlerta + Cardinality(nuevos))
    IN
    /\ seqAlerta + Cardinality(nuevos) <= MaxAlertas
    /\ alertas' = [pk \in DOMAIN alertas \cup pks |->
                      IF pk \in pks THEN AlertaDeTarea(casoDe(pk), now) ELSE alertas[pk]]
    /\ marcas' = [pk \in DOMAIN marcas \cup pks |-> IF pk \in pks THEN 0 ELSE marcas[pk]]
    /\ seqAlerta' = seqAlerta + Cardinality(nuevos)
    /\ ret' = [op |-> "crear_alertas_vencimiento", contador |-> Cardinality(nuevos)]
    /\ UNCHANGED <<now, ticks, casos, movimientos, documentos, procesos, seqCaso, tareas>>

\* crear_alertas_vencimiento when Alerta.objects.create raises for the case malo:
\* the alerts of the cases visited before it are stored, the 'except Exception'
\* around the whole loop ends the run, and the task returns "Error: ..."
crear_alertas_vencimiento_error(malo) ==
    LET nuevos == {c \in CasosProximos : ~TieneAlertaReciente(c)}
        antes == {c \in nuevos : c > malo}
        pkDe(c) == seqAlerta + 1 + Cardinality({x \in antes : x > c})
        casoDe(pk) == CHOOSE c \in antes : pkDe(c) = pk
        pks == (seqAlerta + 1) .. (seqAlerta + Cardinality(antes))
    IN
    /\ malo \in nuevos
    /\ seqAlerta + Cardinality(antes) <= MaxAlertas
    /\ alertas' = [pk \in DOMAIN alertas \cup pks |->
                      IF pk \in pks THEN AlertaDeTarea(casoDe(pk), now) ELSE alertas[pk]]
    /\ marcas' = [pk \in DOMAIN marcas \cup pks |-> IF pk \in pks THEN 0 ELSE marcas[pk]]
    /\ seqAlerta' = seqAlerta + Cardinality(antes)
    /\ ret' = [op |-> "crear_alertas_vencimiento", resultado |-> "Error", error |-> malo]
    /\ UNCHANGED <<now, ticks, casos, movimientos, documentos, procesos, seqCaso, tareas>>

----------------------------------------------------------------------------
(* Executions that other processes can interleave with.  A run of                *)
(* crear_alertas_vencimiento holds no transaction and no lock: the queryset is   *)
(* read when the loop starts, and for each case the existence check and the      *)
(* create are two statements.  Caso.save() of a model without parents runs in    *)
(* autocommit: the INSERT is visible to the other processes before the post_save *)
(* receivers run.                                                                *)

MaxBarridos == 2

Barridos == {p \in procesos : p.op = "crear_alertas_vencimiento"}

\* casos_proximos in the Meta ordering (same due date: newest first)
ColaDeCasos(S) ==
    [i \in 1..Cardinality(S) |-> CHOOSE c \in S : Cardinality({x \in S : x > c}) = i - 1]

\* A worker starts a run: fecha_limite, and the rows the for loop will visit
crear_alertas_vencimiento_inicio ==
    LET id == CHOOSE i \in 1..MaxBarridos : /\ \A p \in Barridos : p.id # i
                                            /\ \A j \in 1..(i - 1) : \E p \in Barridos : p.id = j
    IN
    /\ Cardinality(Barridos) < MaxBarridos
    /\ procesos' = procesos \cup {[op |-> "crear_alertas_vencimiento", id |-> id,
                                   pc |-> "tiene_alerta", cola |-> ColaDeCasos(CasosProximos),
                                   contador |-> 0]}
    /\ ret' = [op |-> "worker", paso |-> "casos_proximos"]
    /\ UNCHANGED <<now, ticks, casos, alertas, movimientos, documentos, seqCaso, seqAlerta, tareas, marcas>>

\* The loop test and, for the next case, tiene_alerta = ...exists()
crear_alertas_vencimiento_tiene_alerta(p) ==
    /\ p \in Barridos
    /\ p.pc = "tiene_alerta"
    /\ IF p.cola = <<>>
       THEN /\ procesos' = procesos \ {p}
            /\ ret' = [op |-> "crear_alertas_vencimiento", contador |-> p.contador]
       ELSE /\ procesos' = (procesos \ {p}) \cup
                              {IF TieneAlertaReciente(Head(p.cola))
                               THEN [p EXCEPT !.cola = Tail(@)]
                               ELSE [p EXCEPT !.pc = "create"]}
            /\ ret' = [op |-> "worker", paso |-> "tiene_alerta"]
    /\ UNCHANGED <<now, ticks, casos, alertas, movimientos, documentos, seqCaso, seqAlerta, tareas, marcas>>

\* Fault variant of crear_alertas_vencimiento_create: the check is made again
crear_alertas_vencimiento_create_si_falta(p) ==
    /\ p \in Barridos
    /\ p.pc = "create"
    /\ IF TieneAlertaReciente(Head(p.cola))
       THEN /\ procesos' = (procesos \ {p}) \cup {[p EXCEPT !.pc = "tiene_alerta",
                                                            !.cola = Tail(@)]}
            /\ UNCHANGED <<alertas, marcas, seqAlerta>>
       ELSE /\ seqAlerta < MaxAlertas
            /\ alertas' = Poner(alertas, seqAlerta + 1, AlertaDeTarea(Head(p.cola), now))
            /\ marcas' = Poner(marcas, seqAlerta + 1, 0)
            /\ seqAlerta' = seqAlerta + 1
            /\ procesos' = (procesos \ {p}) \cup {[p EXCEPT !.pc = "tiene_alerta",
                                                            !.cola = Tail(@),
                                                            !.contador = @ + 1]}
    /\ ret' = [op |-> "worker", paso |-> "create"]
    /\ UNCHANGED <<now, ticks, casos, movimientos, documentos, seqCaso, tareas>>

\* 'if not tiene_alerta: Alerta.objects.create(...)' with the tiene_alerta read before
crear_alertas_vencimiento_create(p) ==
    /\ p \in Barridos
    /\ p.pc = "create"
    /\ seqAlerta < MaxAlertas
    /\ alertas' = Poner(alertas, seqAlerta + 1, AlertaDeTarea(Head(p.cola), now))
    /\ marcas' = Poner(marcas, seqAlerta + 1, 0)
    /\ seqAlerta' = seqAlerta + 1
    /\ procesos' = (procesos \ {p}) \cup {[p EXCEPT !.pc = "tiene_alerta",
                                                    !.cola = Tail(@),
                                                    !.contador = @ + 1]}
    /\ ret' = [op |-> "worker", paso |-> "create"]
    /\ UNCHANGED <<now, ticks, casos, movimientos, documentos, seqCaso, tareas>>

Guardados == {p \in procesos : p.op = "Caso.save"}

\* Caso(...).save() of a new instance up to the INSERT: pre_save, save(), the row
Caso_save_insert(usuario, estado, fecha_vencimiento) ==
    LET pk == seqCaso + 1
        inst == FilaCaso([estado |-> estado, fecha_vencimiento |-> fecha_vencimiento,
                          usuario_responsable |-> usuario, urgente |-> FALSE], Hoy)
    IN
    /\ seqCaso < MaxCasos
    /\ Guardados = {}
    /\ casos' = Poner(casos, pk, inst)
    /\ seqCaso' = pk
    /\ procesos' = procesos \cup {[op |-> "Caso.save", pc |-> "post_save", pk |-> pk,
                                   inst |-> inst]}
    /\ ret' = [op |-> "worker", paso |-> "INSERT"]
    /\ UNCHANGED <<now, ticks, alertas, movimientos, documentos, seqAlerta, tareas, marcas>>

\* Fault variant of Caso_post_save: the trigger makes the check of the scan
Caso_post_save_si_falta(p) ==
    LET conAlerta == /\ DebeCrearAlertaAutomatica(p.inst, TRUE, Hoy)
                     /\ ~TieneAlertaReciente(p.pk)
    IN
    /\ p \in Guardados
    /\ conAlerta => seqAlerta < MaxAlertas
    /\ procesos' = procesos \ {p}
    /\ movimientos' = Append(movimientos, MovimientoInicial(p.pk, p.inst, now))
    /\ IF conAlerta
       THEN /\ alertas' = Poner(alertas, seqAlerta + 1, AlertaDeSenal(p.pk, p.inst, now))
            /\ seqAlerta' = seqAlerta + 1
            /\ marcas' = Poner(marcas, seqAlerta + 1, 0)
       ELSE UNCHANGED <<alertas, seqAlerta, marcas>>
    /\ ret' = [op |-> "Caso.save", created |-> TRUE, resultado |-> "ok", pk |-> p.pk]
    /\ UNCHANGED <<now, ticks, casos, documentos, seqCaso, tareas>>

\* The rest of that save(): the post_save receivers crear_movimiento_inicial and
\* crear_alerta_automatica, on the instance that was saved
Caso_post_save(p) ==
    LET conAlerta == DebeCrearAlertaAutomatica(p.inst, TRUE, Hoy)
    IN
    /\ p \in Guardados
    /\ conAlerta => seqAlerta < MaxAlertas
    /\ procesos' = procesos \ {p}
    /\ movimientos' = Append(movimientos, MovimientoInicial(p.pk, p.inst, now))
    /\ IF conAlerta
       THEN /\ alertas' = Poner(alertas, seqAlerta + 1, AlertaDeSenal(p.pk, p.inst, now))
            /\ seqAlerta' = seqAlerta + 1
            /\ marcas' = Poner(marcas, seqAlerta + 1, 0)
       ELSE UNCHANGED <<alertas, seqAlerta, marcas>>
    /\ ret' = [op |-> "Caso.save", created |-> TRUE, resultado |-> "ok", pk |-> p.pk]
    /\ UNCHANGED <<now, ticks, casos, documentos, seqCaso, tareas>>
\* Fault variant of AlertasAPurgar: the cut-off date itself is included
AlertasAPurgarInclusive ==
    {pk \in DOMAIN alertas : /\ alertas[pk].enviada = TRUE
                             /\ alertas[pk].fecha_envio # Ninguno
                             /\ alertas[pk].fecha_envio[1] <= now - DiasRetencion * SegDia}

\* limpiar_alertas_antiguas: the queryset that is deleted
AlertasAPurgar ==
    {pk \in DOMAIN alertas : /\ alertas[pk].enviada = TRUE
                             /\ alertas[pk].fecha_envio # Ninguno
                             /\ alertas[pk].fecha_envio[1] < now - DiasRetencion * SegDia}

limpiar_alertas_antiguas ==
    /\ alertas' = Quitar(alertas, AlertasAPurgar)
    /\ marcas' = Quitar(marcas, AlertasAPurgar)
    /\ ret' = [op |-> "limpiar_alertas_antiguas", contador |-> Cardinality(AlertasAPurgar)]
    /\ UNCHANGED <<now, ticks, casos, movimientos, documentos, procesos, seqCaso, seqAlerta, tareas>>

----------------------------------------------------------------------------
(* views.py and admin.py *)

\* The deletion of a Caso row (the admin's delete): the ForeignKeys 'caso' of
\* Alerta, MovimientoCaso and DocumentoCaso are on_delete=CASCADE
EliminarCaso(pk) ==
    LET borradas == {a \in DOMAIN alertas : alertas[a].caso = pk}
    IN
    /\ pk \in DOMAIN casos
    /\ casos' = Quitar(casos, {pk})
    /\ alertas' = Quitar(alertas, borradas)
    /\ marcas' = Quitar(marcas, borradas)
    /\ movimientos' = SelectSeq(movimientos, LAMBDA mov : mov.caso # pk)
    /\ documentos' = SelectSeq(documentos, LAMBDA doc : doc.caso # pk)
    /\ ret' = [op |-> "EliminarCaso", pk |-> pk, alertas |-> borradas]
    /\ UNCHANGED <<now, ticks, procesos, seqCaso, seqAlerta, tareas>>
\* Fault variant of PermisoAlerta: any owner of some case may act
PermisoAlertaLaxo(usuario, pk) ==
    \/ Usuarios[usuario].is_staff
    \/ \E c \in DOMAIN casos : casos[c].usuario_responsable = usuario

\* marcar_alerta_leida: the permission check
PermisoAlerta(usuario, pk) ==
    ~ (~Usuarios[usuario].is_staff /\ casos[alertas[pk].caso].usuario_responsable # usuario)

marcar_alerta_leida(usuario, pk) ==
    /\ IF pk \notin DOMAIN alertas
       THEN /\ ret' = [op |-> "marcar_alerta_leida", usuario |-> usuario, pk |-> pk,
                       resultado |-> "Http404", detalle |-> "get_object_or_404"]
            /\ UNCHANGED alertas
       ELSE IF ~PermisoAlerta(usuario, pk)
       THEN /\ ret' = [op |-> "marcar_alerta_leida", usuario |-> usuario, pk |-> pk,
                       resultado |-> "Http404", detalle |-> "No tienes permisos para esta alerta"]
            /\ UNCHANGED alertas
       ELSE /\ alertas' = [alertas EXCEPT ![pk].leida = TRUE]
            /\ ret' = [op |-> "marcar_alerta_leida", usuario |-> usuario, pk |-> pk,
                       resultado |-> "ok", detalle |-> "Alerta marcada como leida."]
    /\ UNCHANGED <<now, ticks, casos, movimientos, documentos, procesos, seqCaso, seqAlerta, tareas, marcas>>

\* SubirDocumentoView.dispatch / descargar_documento: the permission check on a case
PermisoCaso(usuario, c) ==
    ~ (~Usuarios[usuario].is_staff /\ casos[c].usuario_responsable # usuario)

\* SubirDocumentoView: dispatch, then form_valid with a valid DocumentoCasoForm
SubirDocumentoView(usuario, caso_pk) ==
    /\ IF caso_pk \notin DOMAIN casos
       THEN /\ ret' = [op |-> "SubirDocumentoView", usuario |-> usuario, pk |-> caso_pk,
                       resultado |-> "Http404", detalle |-> "get_object_or_404"]
            /\ UNCHANGED documentos
       ELSE IF ~PermisoCaso(usuario, caso_pk)
       THEN /\ ret' = [op |-> "SubirDocumentoView", usuario |-> usuario, pk |-> caso_pk,
                       resultado |-> "Http404",
                       detalle |-> "No tienes permisos para acceder a este caso"]
            /\ UNCHANGED documentos
       ELSE /\ Len(documentos) < MaxDocumentos
            /\ documentos' = Append(documentos, [caso |-> caso_pk, usuario_subida |-> usuario,
                                                 archivo |-> TRUE, fecha_subida |-> now])
            /\ ret' = [op |-> "SubirDocumentoView", usuario |-> usuario, pk |-> caso_pk,
                       resultado |-> "ok", detalle |-> "Documento subido exitosamente."]
    /\ UNCHANGED <<now, ticks, casos, alertas, movimientos, procesos, seqCaso, seqAlerta, tareas, marcas>>

descargar_documento(usuario, pk) ==
    /\ ret' = [op |-> "descargar_documento", usuario |-> usuario, pk |-> pk,
               resultado |-> IF pk \notin DOMAIN documentos THEN "Http404"
                             ELSE IF ~PermisoCaso(usuario, documentos[pk].caso) THEN "Http404"
                             ELSE IF documentos[pk].archivo THEN "ok"
                             ELSE "Http404",
               detalle |-> IF pk \notin DOMAIN documentos THEN "get_object_or_404"
                           ELSE IF ~PermisoCaso(usuario, documentos[pk].caso)
                           THEN "No tienes permisos para descargar este documento"
                           ELSE IF documentos[pk].archivo THEN "attachment"
                           ELSE "Archivo no encontrado"]
    /\ UNCHANGED <<now, ticks, casos, alertas, movimientos, documentos, procesos, seqCaso, seqAlerta,
                   tareas, marcas>>

\* What a read-only view hands to its template or JSON response: the primary keys
\* of the rows it exposes
Vista(nombre, usuario, resultado, cs, as, ms, ds) ==
    [op |-> "vista", vista |-> nombre, usuario |-> usuario, resultado |-> resultado,
     casos |-> cs, alertas |-> as, movimientos |-> ms, documentos |-> ds]

\* Fault variant of CasoListView_get_queryset: the filter on the user is missing
CasoListView_sin_filtro(usuario) == DOMAIN casos

\* CasoListView.get_queryset without search parameters
CasoListView_get_queryset(usuario) ==
    IF ~Usuarios[usuario].is_staff
    THEN {c \in DOMAIN casos : casos[c].usuario_responsable = usuario}
    ELSE DOMAIN casos

\* CasoDetailView.get_queryset
CasoDetailView_get_queryset(usuario) ==
    IF ~Usuarios[usuario].is_staff
    THEN {c \in DOMAIN casos : casos[c].usuario_responsable = usuario}
    ELSE DOMAIN casos

\* CasoUpdateView.get_queryset
CasoUpdateView_get_queryset(usuario) ==
    IF ~Usuarios[usuario].is_staff
    THEN {c \in DOMAIN casos : casos[c].usuario_responsable = usuario}
    ELSE DOMAIN casos

\* AlertaListView.get_queryset
AlertaListView_get_queryset(usuario) ==
    IF ~Usuarios[usuario].is_staff
    THEN {a \in DOMAIN alertas : casos[alertas[a].caso].usuario_responsable = usuario}
    ELSE DOMAIN alertas

\* DashboardView.get_context_data: casos_queryset
DashboardView_casos(usuario) ==
    IF Usuarios[usuario].is_staff
    THEN DOMAIN casos
    ELSE {c \in DOMAIN casos : casos[c].usuario_responsable = usuario}

\* DashboardView.get_context_data: alertas_queryset
DashboardView_alertas(usuario) ==
    IF Usuarios[usuario].is_staff
    THEN DOMAIN alertas
    ELSE {a \in DOMAIN alertas : casos[alertas[a].caso].usuario_responsable = usuario}

\* casos_por_tipo_api / casos_por_estado_api / proximos_vencimientos_api: casos
ApiCasos(usuario) ==
    IF Usuarios[usuario].is_staff
    THEN DOMAIN casos
    ELSE {c \in DOMAIN casos : casos[c].usuario_responsable = usuario}

\* DashboardView: the statistics count casos_queryset, the lists are slices of it
DashboardView(usuario) ==
    /\ ret' = Vista("DashboardView", usuario, "ok",
                    DashboardView_casos(usuario),
                    {a \in DashboardView_alertas(usuario) :
                        alertas[a].enviada = FALSE /\ alertas[a].leida = FALSE},
                    {i \in DOMAIN movimientos :
                        movimientos[i].caso \in DashboardView_casos(usuario)},
                    {})
    /\ UNCHANGED <<now, ticks, casos, alertas, movimientos, documentos, procesos, seqCaso, seqAlerta,
                   tareas, marcas>>

CasoListView(usuario) ==
    /\ ret' = Vista("CasoListView", usuario, "ok",
                    CasoListView_get_queryset(usuario), {}, {}, {})
    /\ UNCHANGED <<now, ticks, casos, alertas, movimientos, documentos, procesos, seqCaso, seqAlerta,
                   tareas, marcas>>

\* CasoDetailView: get_object on the filtered queryset, then the related rows
CasoDetailView(usuario, pk) ==
    /\ ret' = IF pk \in CasoDetailView_get_queryset(usuario)
              THEN Vista("CasoDetailView", usuario, "ok", {pk},
                         {a \in DOMAIN alertas : alertas[a].caso = pk},
                         {i \in DOMAIN movimientos : movimientos[i].caso = pk},
                         {d \in DOMAIN documentos : documentos[d].caso = pk})
              ELSE Vista("CasoDetailView", usuario, "Http404", {}, {}, {}, {})
    /\ UNCHANGED <<now, ticks, casos, alertas, movimientos, documentos, procesos, seqCaso, seqAlerta,
                   tareas, marcas>>

\* CasoUpdateView, GET: get_object on the filtered queryset, the form shows the case
CasoUpdateView_get(usuario, pk) ==
    /\ ret' = IF pk \in CasoUpdateView_get_queryset(usuario)
              THEN Vista("CasoUpdateView", usuario, "ok", {pk}, {}, {}, {})
              ELSE Vista("CasoUpdateView", usuario, "Http404", {}, {}, {}, {})
    /\ UNCHANGED <<now, ticks, casos, alertas, movimientos, documentos, procesos, seqCaso, seqAlerta,
                   tareas, marcas>>

AlertaListView(usuario) ==
    /\ ret' = Vista("AlertaListView", usuario, "ok",
                    {}, AlertaListView_get_queryset(usuario), {}, {})
    /\ UNCHANGED <<now, ticks, casos, alertas, movimientos, documentos, procesos, seqCaso, seqAlerta,
                   tareas, marcas>>

\* casos_por_tipo_api and casos_por_estado_api aggregate the same queryset
casos_por_estado_api(usuario) ==
    /\ ret' = Vista("casos_por_estado_api", usuario, "ok", ApiCasos(usuario), {}, {}, {})
    /\ UNCHANGED <<now, ticks, casos, alertas, movimientos, documentos, procesos, seqCaso, seqAlerta,
                   tareas, marcas>>

proximos_vencimientos_api(usuario) ==
    /\ ret' = Vista("proximos_vencimientos_api", usuario, "ok",
                    {c \in ApiCasos(usuario) :
                        /\ casos[c].estado = "EN_TRAMITACION"
                        /\ casos[c].fecha_vencimiento[1] >= Hoy
                        /\ casos[c].fecha_vencimiento[1] <= Hoy + DiasGrafico},
                    {}, {}, {})
    /\ UNCHANGED <<now, ticks, casos, alertas, movimientos, documentos, procesos, seqCaso, seqAlerta,
                   tareas, marcas>>

\* AlertaAdmin.save_model on an existing alert: the form field enviar_email is changed
AdminEditarAlerta(pk, enviar_email) ==
    /\ pk \in DOMAIN alertas
    /\ alertas[pk].enviar_email # enviar_email
    /\ alertas' = [alertas EXCEPT ![pk].enviar_email = enviar_email]
    /\ ret' = [op |-> "AlertaAdmin.save_model", pk |-> pk]
    /\ UNCHANGED <<now, ticks, casos, movimientos, documentos, procesos, seqCaso, seqAlerta, tareas, marcas>>

\* AlertaAdmin.reenviar_alertas on the selected alerts
reenviar_alertas(seleccion) ==
    /\ seleccion # {}
    /\ seleccion \subseteq DOMAIN alertas
    /\ alertas' = [pk \in DOMAIN alertas |->
                      IF pk \in seleccion
                      THEN [alertas[pk] EXCEPT !.enviada = FALSE, !.fecha_envio = Ninguno]
                      ELSE alertas[pk]]
    /\ marcas' = [pk \in DOMAIN marcas |-> IF pk \in seleccion THEN 0 ELSE marcas[pk]]
    /\ ret' = [op |-> "reenviar_alertas", updated |-> Cardinality(seleccion)]
    /\ UNCHANGED <<now, ticks, casos, movimientos, documentos, procesos, seqCaso, seqAlerta, tareas>>

\* AlertaAdmin change form, fieldset 'Estado': enviada and leida are editable,
\* fecha_envio is read-only and keeps the value the row had
AdminEditarEstado(pk, enviada, leida) ==
    /\ pk \in DOMAIN alertas
    /\ alertas[pk].enviada # enviada \/ alertas[pk].leida # leida
    /\ alertas' = [alertas EXCEPT ![pk].enviada = enviada, ![pk].leida = leida]
    /\ marcas' = IF alertas[pk].enviada /\ ~enviada THEN [marcas EXCEPT ![pk] = 0] ELSE marcas
    /\ ret' = [op |-> "AlertaAdmin.save_model", pk |-> pk]
    /\ UNCHANGED <<now, ticks, casos, movimientos, documentos, procesos, seqCaso, seqAlerta, tareas>>

\* Fault variant of marcar_como_enviadas: the update also resets leida
marcar_como_enviadas_y_leida(seleccion) ==
    /\ seleccion # {}
    /\ seleccion \subseteq DOMAIN alertas
    /\ alertas' = [pk \in DOMAIN alertas |->
                      IF pk \in seleccion
                      THEN [alertas[pk] EXCEPT !.enviada = TRUE, !.fecha_envio = Algun(now),
                                               !.leida = FALSE]
                      ELSE alertas[pk]]
    /\ ret' = [op |-> "marcar_como_enviadas", updated |-> Cardinality(seleccion)]
    /\ UNCHANGED <<now, ticks, casos, movimientos, documentos, procesos, seqCaso, seqAlerta, tareas, marcas>>

\* AlertaAdmin.marcar_como_enviadas on the selected alerts
marcar_como_enviadas(seleccion) ==
    /\ seleccion # {}
    /\ seleccion \subseteq DOMAIN alertas
    /\ alertas' = [pk \in DOMAIN alertas |->
                      IF pk \in seleccion
                      THEN [alertas[pk] EXCEPT !.enviada = TRUE, !.fecha_envio = Algun(now)]
                      ELSE alertas[pk]]
    /\ ret' = [op |-> "marcar_como_enviadas", updated |-> Cardinality(seleccion)]
    /\ UNCHANGED <<now, ticks, casos, movimientos, documentos, procesos, seqCaso, seqAlerta, tareas, marcas>>

\* CasoAdmin.marcar_como_cerrado on the selected cases: queryset.update
marcar_como_cerrado(seleccion) ==
    /\ seleccion # {}
    /\ seleccion \subseteq DOMAIN casos
    /\ casos' = [pk \in DOMAIN casos |->
                    IF pk \in seleccion THEN [casos[pk] EXCEPT !.estado = "CERRADO"]
                    ELSE casos[pk]]
    /\ ret' = [op |-> "marcar_como_cerrado", seleccion |-> seleccion,
               updated |-> Cardinality(seleccion)]
    /\ UNCHANGED <<now, ticks, alertas, movimientos, documentos, procesos, seqCaso, seqAlerta,
                   tareas, marcas>>

\* CasoAdmin.marcar_urgente on the selected cases: queryset.update
marcar_urgente(seleccion) ==
    /\ seleccion # {}
    /\ seleccion \subseteq DOMAIN casos
    /\ casos' = [pk \in DOMAIN casos |->
                    IF pk \in seleccion THEN [casos[pk] EXCEPT !.urgente = TRUE]
                    ELSE casos[pk]]
    /\ ret' = [op |-> "marcar_urgente", seleccion |-> seleccion,
               updated |-> Cardinality(seleccion)]
    /\ UNCHANGED <<now, ticks, alertas, movimientos, documentos, procesos, seqCaso, seqAlerta,
                   tareas, marcas>>

\* CasoAdmin.crear_alerta_vencimiento: 'caso.dias_hasta_vencimiento and
\* caso.dias_hasta_vencimiento <= 7' (0 is false in Python)
CercaDeVencer(c) ==
    LET dias == dias_hasta_vencimiento(casos[c].fecha_vencimiento, Hoy) IN
    /\ dias # Ninguno
    /\ dias[1] # 0
    /\ dias[1] <= 7

\* CasoAdmin.crear_alerta_vencimiento: alerta_existente; the date is compared
\* with fecha_alerta as the midnight that starts it
AlertaExistente(c) ==
    \E a \in DOMAIN alertas : /\ alertas[a].caso = c
                              /\ alertas[a].tipo = "VENCIMIENTO"
                              /\ alertas[a].fecha_alerta >= Hoy * SegDia

\* CasoAdmin.crear_alerta_vencimiento: the Alerta row it creates
AlertaDeAdmin(c, usuario, t) ==
    [ caso |-> c, tipo |-> "VENCIMIENTO",
      mensaje |-> [origen |-> "admin", dias |-> casos[c].fecha_vencimiento[1] - Fecha(t)],
      fecha_alerta |-> t + HorasAlertaAdmin * 3600,
      enviada |-> FALSE, fecha_envio |-> Ninguno, leida |-> FALSE,
      enviar_email |-> TRUE,
      email_destinatario |-> Usuarios[casos[c].usuario_responsable].email,
      fecha_creacion |-> t,
      usuario_creador |-> usuario ]

\* CasoAdmin.crear_alerta_vencimiento on the selected cases, visited in the
\* ordering of CasoAdmin: latest due date first, then newest first
crear_alerta_vencimiento(usuario, seleccion) ==
    LET crean == {c \in seleccion : CercaDeVencer(c) /\ ~AlertaExistente(c)}
        antes(c) == {x \in crean :
                        \/ casos[x].fecha_vencimiento[1] > casos[c].fecha_vencimiento[1]
                        \/ /\ casos[x].fecha_vencimiento[1] = casos[c].fecha_vencimiento[1]
                           /\ x > c}
        pkDe(c) == seqAlerta + 1 + Cardinality(antes(c))
        casoDe(pk) == CHOOSE c \in crean : pkDe(c) = pk
        pks == (seqAlerta + 1) .. (seqAlerta + Cardinality(crean))
    IN
    /\ seleccion # {}
    /\ seleccion \subseteq DOMAIN casos
    /\ seqAlerta + Cardinality(crean) <= MaxAlertas
    /\ alertas' = [pk \in DOMAIN alertas \cup pks |->
                      IF pk \in pks THEN AlertaDeAdmin(casoDe(pk), usuario, now)
                      ELSE alertas[pk]]
    /\ marcas' = [pk \in DOMAIN marcas \cup pks |-> IF pk \in pks THEN 0 ELSE marcas[pk]]
    /\ seqAlerta' = seqAlerta + Cardinality(crean)
    /\ ret' = [op |-> "crear_alerta_vencimiento", seleccion |-> seleccion,
               alertas_creadas |-> Cardinality(crean)]
    /\ UNCHANGED <<now, ticks, casos, movimientos, documentos, procesos, seqCaso, tareas>>

----------------------------------------------------------------------------
(* forms.py: CasoForm and AlertaForm.  A rol is a sequence of characters. *)

Letras == {"A", "C", "L", "O", "R"}
Digitos == {"0", "1", "2", "4", "5", "7"}

\* str.upper() on the characters the inputs use
upper_char(ch) ==
    CASE ch = "a" -> "A"
      [] ch = "c" -> "C"
      [] ch = "r" -> "R"
      [] OTHER -> ch

upper(rol) == [i \in DOMAIN rol |-> upper_char(rol[i])]

RECURSIVE lstrip(_)
lstrip(rol) == IF rol # <<>> /\ Head(rol) = " " THEN lstrip(Tail(rol)) ELSE rol

RECURSIVE rstrip(_)
rstrip(rol) ==
    IF rol # <<>> /\ rol[Len(rol)] = " " THEN rstrip(SubSeq(rol, 1, Len(rol) - 1)) ELSE rol

\* str.strip()
strip(rol) == rstrip(lstrip(rol))

\* utils.py: validar_rol_caso, re.match(r'^[A-Z]-\d{1,4}-\d{4}$', rol.upper())
validar_rol_caso(rol) ==
    LET r == upper(rol)
        n == Len(r)
    IN
    /\ n >= 8
    /\ n <= 11
    /\ r[1] \in Letras
    /\ r[2] = "-"
    /\ \A i \in 3..(n - 5) : r[i] \in Digitos
    /\ r[n - 4] = "-"
    /\ \A i \in (n - 3)..n : r[i] \in Digitos

\* CasoForm.clean_fecha_presentacion (the field is required)
clean_fecha_presentacion(datos, hoy) ==
    IF datos.fecha_presentacion = Ninguno THEN {"fecha_presentacion: requerido"}
    ELSE IF datos.fecha_presentacion[1] > hoy THEN {"fecha_presentacion: futura"}
    ELSE {}

\* Fault variant of clean_fecha_vencimiento: a past due date is let through
clean_fecha_vencimiento_laxo(datos, hoy) ==
    IF datos.fecha_vencimiento = Ninguno THEN {"fecha_vencimiento: requerido"}
    ELSE {}

\* CasoForm.clean_fecha_vencimiento (the field is required)
clean_fecha_vencimiento(datos, hoy) ==
    IF datos.fecha_vencimiento = Ninguno THEN {"fecha_vencimiento: requerido"}
    ELSE IF datos.fecha_vencimiento[1] < hoy THEN {"fecha_vencimiento: pasada"}
    ELSE {}

\* The value CasoForm.clean_rol returns
rol_limpio(datos) == upper(strip(datos.rol))

\* CasoForm.clean_rol (the field is required); pk is self.instance.pk, 0 for a new case
clean_rol(datos, pk) ==
    IF strip(datos.rol) = <<>> THEN {"rol: requerido"}
    ELSE IF \E c \in DOMAIN casos \ {pk} : casos[c].rol = rol_limpio(datos)
    THEN {"rol: ya existe"}
    ELSE {}

\* CasoForm.clean: it compares only the dates whose own validation passed
CasoForm_clean(datos, hoy) ==
    IF /\ clean_fecha_presentacion(datos, hoy) = {}
       /\ clean_fecha_vencimiento(datos, hoy) = {}
       /\ datos.fecha_vencimiento[1] <= datos.fecha_presentacion[1]
    THEN {"vencimiento no posterior a presentacion"}
    ELSE {}

\* form.errors of a bound CasoForm
CasoForm_errors(datos, pk, hoy) ==
    clean_rol(datos, pk) \cup clean_fecha_presentacion(datos, hoy)
        \cup clean_fecha_vencimiento(datos, hoy) \cup CasoForm_clean(datos, hoy)

RetCasoForm(created, usuario, pk, datos, resultado) ==
    [op |-> "CasoForm", created |-> created, usuario |-> usuario, pk |-> pk,
     datos |-> datos, resultado |-> resultado]

\* CasoCreateView, POST: the form is validated; form_valid sets the responsible
\* user and saves the new case, which runs the receivers of Caso
CasoCreateView_post(usuario, datos) ==
    LET pk == seqCaso + 1
        inst == FilaCaso([estado |-> datos.estado,
                          fecha_vencimiento |-> datos.fecha_vencimiento,
                          usuario_responsable |-> usuario, urgente |-> FALSE,
                          rol |-> rol_limpio(datos),
                          fecha_presentacion |-> datos.fecha_presentacion], Hoy)
        conAlerta == DebeCrearAlertaAutomatica(inst, TRUE, Hoy)
    IN
    /\ seqCaso < MaxCasos
    /\ IF CasoForm_errors(datos, 0, Hoy) # {}
       THEN /\ ret' = RetCasoForm(TRUE, usuario, 0, datos, "ValidationError")
            /\ UNCHANGED <<casos, alertas, movimientos, seqCaso, seqAlerta, marcas>>
       ELSE /\ conAlerta => seqAlerta < MaxAlertas
            /\ casos' = Poner(casos, pk, inst)
            /\ seqCaso' = pk
            /\ movimientos' = Append(movimientos, MovimientoInicial(pk, inst, now))
            /\ IF conAlerta
               THEN /\ alertas' = Poner(alertas, seqAlerta + 1, AlertaDeSenal(pk, inst, now))
                    /\ seqAlerta' = seqAlerta + 1
                    /\ marcas' = Poner(marcas, seqAlerta + 1, 0)
               ELSE UNCHANGED <<alertas, seqAlerta, marcas>>
            /\ ret' = RetCasoForm(TRUE, usuario, pk, datos, "ok")
    /\ UNCHANGED <<now, ticks, documentos, procesos, tareas>>

\* CasoUpdateView, POST: get_object on the filtered queryset, the form is
\* validated against the instance, form_valid saves it
CasoUpdateView_post(usuario, pk, datos) ==
    /\ IF pk \notin CasoUpdateView_get_queryset(usuario)
       THEN /\ ret' = RetCasoForm(FALSE, usuario, pk, datos, "Http404")
            /\ UNCHANGED casos
       ELSE IF CasoForm_errors(datos, pk, Hoy) # {}
       THEN /\ ret' = RetCasoForm(FALSE, usuario, pk, datos, "ValidationError")
            /\ UNCHANGED casos
       ELSE /\ casos' = Poner(casos, pk,
                              FilaCaso([casos[pk] EXCEPT
                                           !.estado = datos.estado,
                                           !.fecha_vencimiento = datos.fecha_vencimiento,
                                           !.rol = rol_limpio(datos),
                                           !.fecha_presentacion = datos.fecha_presentacion],
                                       Hoy))
            /\ ret' = RetCasoForm(FALSE, usuario, pk, datos, "ok")
    /\ UNCHANGED <<now, ticks, alertas, movimientos, documentos, procesos, seqCaso, seqAlerta, tareas, marcas>>

\* AlertaForm.clean_fecha_alerta (the field is required)
clean_fecha_alerta(fecha_alerta, ahora) ==
    IF fecha_alerta = Ninguno THEN {"fecha_alerta: requerido"}
    ELSE IF fecha_alerta[1] < ahora THEN {"fecha_alerta: pasada"}
    ELSE {}

\* AlertaForm.__init__: the cases offered to the user
AlertaForm_casos(usuario) ==
    IF ~Usuarios[usuario].is_staff
    THEN {c \in DOMAIN casos : casos[c].usuario_responsable = usuario}
    ELSE DOMAIN casos

\* form.errors of a bound AlertaForm(user=usuario)
AlertaForm_errors(usuario, caso, fecha_alerta, ahora) ==
    (IF caso \in AlertaForm_casos(usuario) THEN {} ELSE {"caso: opcion no valida"})
        \cup clean_fecha_alerta(fecha_alerta, ahora)

\* An AlertaForm is submitted; when it is valid the alert is saved with the
\* submitting user as usuario_creador
AlertaForm_save(usuario, caso, fecha_alerta) ==
    /\ IF AlertaForm_errors(usuario, caso, fecha_alerta, now) # {}
       THEN /\ ret' = [op |-> "AlertaForm", usuario |-> usuario, caso |-> caso,
                       fecha_alerta |-> fecha_alerta, resultado |-> "ValidationError"]
            /\ UNCHANGED <<alertas, seqAlerta, marcas>>
       ELSE /\ seqAlerta < MaxAlertas
            /\ alertas' = Poner(alertas, seqAlerta + 1,
                   [ caso |-> caso, tipo |-> "SEGUIMIENTO",
                     mensaje |-> [origen |-> "formulario", dias |-> 0],
                     fecha_alerta |-> fecha_alerta[1],
                     enviada |-> FALSE, fecha_envio |-> Ninguno, leida |-> FALSE,
                     enviar_email |-> TRUE, email_destinatario |-> "",
                     fecha_creacion |-> now, usuario_creador |-> usuario ])
            /\ seqAlerta' = seqAlerta + 1
            /\ marcas' = Poner(marcas, seqAlerta + 1, 0)
            /\ ret' = [op |-> "AlertaForm", usuario |-> usuario, caso |-> caso,
                       fecha_alerta |-> fecha_alerta, resultado |-> "ok"]
    /\ UNCHANGED <<now, ticks, casos, movimientos, documentos, procesos, seqCaso, tareas>>

----------------------------------------------------------------------------
(* The alert lifecycle with a Notification Sender that delivers: cases created *)
(* at the anticipation boundary, the hourly dispatch, the send tasks, the      *)
(* weekly purge and the admin actions on alerts                                *)

Next ==
    \/ \E salto \in {SegDia, DiasRetencion * SegDia} : Tick(salto)
    \/ CrearCaso("ana", "EN_TRAMITACION", Algun(Hoy + dias_anticipacion))
    \/ \E t \in BagToSet(tareas) : TareaInicio(t)
    \/ \E t \in BagToSet(tareas) : TareaEnviar(t, TRUE)
    \/ \E t \in BagToSet(tareas) : TareaMarcar(t)
    \/ revisar_alertas_pendientes
    \/ limpiar_alertas_antiguas
    \/ \E pk \in DOMAIN alertas : AdminEditarAlerta(pk, FALSE)
    \/ \E pk \in DOMAIN alertas : reenviar_alertas({pk})

Spec == Init /\ [][Next]_vars

----------------------------------------------------------------------------
(* The send task against a Notification Sender that fails on every attempt *)

NextReintentos ==
    \/ \E salto \in {countdown, SegDia} : Tick(salto)
    \/ CrearCaso("ana", "EN_TRAMITACION", Algun(Hoy + dias_anticipacion))
    \/ \E t \in BagToSet(tareas) : TareaInicio(t)
    \/ \E t \in BagToSet(tareas) : TareaEnviar(t, FALSE)
    \/ revisar_alertas_pendientes

SpecReintentos == Init /\ [][NextReintentos]_vars

----------------------------------------------------------------------------
(* Cases over the days: creation, edits and the daily scan *)

FechasEntrada == {Algun(d) : d \in DiasEntrada} \cup {Ninguno}

NextCasos ==
    \/ \E salto \in {countdown, SegDia} : Tick(salto)
    \/ \E e \in EstadosEntrada, f \in FechasEntrada : CrearCaso("ana", e, f)
    \/ \E pk \in DOMAIN casos, e \in EstadosEntrada, f \in FechasEntrada : EditarCaso(pk, e, f)
    \/ crear_alertas_vencimiento

SpecCasos == Init /\ [][NextCasos]_vars

----------------------------------------------------------------------------
(* Requests of the users on alerts *)

NextVistas ==
    \/ Tick(SegDia)
    \/ \E u \in Responsables : CrearCaso(u, "EN_TRAMITACION", Algun(Hoy + dias_anticipacion))
    \/ \E u \in UsuarioIds, pk \in 1..MaxAlertas : marcar_alerta_leida(u, pk)
    \/ \E u \in UsuarioIds, pk \in 1..MaxCasos : SubirDocumentoView(u, pk)
    \/ \E u \in UsuarioIds, pk \in 1..MaxDocumentos : descargar_documento(u, pk)
    \/ \E u \in UsuarioIds : DashboardView(u)
    \/ \E u \in UsuarioIds : CasoListView(u)
    \/ \E u \in UsuarioIds, pk \in 1..MaxCasos : CasoDetailView(u, pk)
    \/ \E u \in UsuarioIds, pk \in 1..MaxCasos : CasoUpdateView_get(u, pk)
    \/ \E u \in UsuarioIds : AlertaListView(u)
    \/ \E u \in UsuarioIds : casos_por_estado_api(u)
    \/ \E u \in UsuarioIds : proximos_vencimientos_api(u)

SpecVistas == Init /\ [][NextVistas]_vars

----------------------------------------------------------------------------
(* One alert under the send task, the reader and the administrator *)

NextAdmin ==
    \/ Tick(SegDia)
    \/ /\ seqCaso = 0
       /\ CrearCaso("ana", "EN_TRAMITACION", Algun(Hoy + dias_anticipacion))
    \/ \E t \in BagToSet(tareas) : TareaInicio(t)
    \/ \E t \in BagToSet(tareas) : TareaEnviar(t, TRUE)
    \/ \E t \in BagToSet(tareas) : TareaMarcar(t)
    \/ revisar_alertas_pendientes
    \/ \E pk \in DOMAIN alertas : marcar_alerta_leida("ana", pk)
    \/ \E pk \in DOMAIN alertas : AdminEditarAlerta(pk, FALSE)
    \/ \E pk \in DOMAIN alertas, e, l \in BOOLEAN : AdminEditarEstado(pk, e, l)
    \/ \E pk \in DOMAIN alertas : marcar_como_enviadas({pk})
    \/ \E pk \in DOMAIN alertas : reenviar_alertas({pk})

SpecAdmin == Init /\ [][NextAdmin]_vars

----------------------------------------------------------------------------
(* Alerts of cases whose responsible user may have no email address.  The beat  *)
(* schedule runs the dispatch every hour for ever and the workers take every    *)
(* task they are given; clock values after the last tick are all alike for the  *)
(* dispatch filter, so the run goes on with the clock standing.                 *)

NextSinDestino ==
    \/ Tick(SegDia)
    \/ \E u \in Responsables : CrearCaso(u, "EN_TRAMITACION", Algun(Hoy + dias_anticipacion))
    \/ \E t \in BagToSet(tareas) : TareaInicio(t)
    \/ \E t \in BagToSet(tareas) : TareaEnviar(t, TRUE)
    \/ \E t \in BagToSet(tareas) : TareaMarcar(t)
    \/ revisar_alertas_pendientes

SpecSinDestino == Init /\ [][NextSinDestino]_vars

SpecSinDestinoPeriodico ==
    /\ Init
    /\ [][NextSinDestino]_vars
    /\ WF_vars(revisar_alertas_pendientes)
    /\ WF_vars(\E t \in BagToSet(tareas) : TareaInicio(t))
    /\ WF_vars(\E t \in BagToSet(tareas) : TareaEnviar(t, TRUE))
    /\ WF_vars(\E t \in BagToSet(tareas) : TareaMarcar(t))

----------------------------------------------------------------------------
(* The daily scan when the creation of an alert can fail *)

NextFallos ==
    \/ Tick(SegDia)
    \/ \E d \in {dias_anticipacion, dias_anticipacion + 1} :
          CrearCaso("ana", "EN_TRAMITACION", Algun(Hoy + d))
    \/ crear_alertas_vencimiento
    \/ \E malo \in DOMAIN casos : crear_alertas_vencimiento_error(malo)

SpecFallos == Init /\ [][NextFallos]_vars

----------------------------------------------------------------------------
(* Cases and alerts entered through the forms on one day *)

RolesEntrada ==
    { <<"c", "-", "7", "-", "2", "0", "2", "4">>,
      <<" ", "A", "-", "1", "2", "-", "2", "0", "2", "5">>,
      <<"R", "O", "L", "7">> }

DatosEntrada ==
    [ rol : RolesEntrada,
      fecha_presentacion : {Algun(Hoy - 2), Algun(Hoy + 1)},
      fecha_vencimiento : {Algun(Hoy - 1), Algun(Hoy + dias_anticipacion + 1)},
      estado : {"EN_TRAMITACION"} ]

NextFormularios ==
    \/ \E datos \in DatosEntrada : CasoCreateView_post("ana", datos)
    \/ \E u \in Responsables, pk \in 1..MaxCasos, datos \in DatosEntrada :
          CasoUpdateView_post(u, pk, datos)
    \/ \E pk \in 1..MaxCasos, f \in {now - 1, now + 3600} : AlertaForm_save("ana", pk, Algun(f))

SpecFormularios == Init /\ [][NextFormularios]_vars

----------------------------------------------------------------------------
(* Delivery of the alerts of one case by the hourly dispatch and the send tasks,  *)
(* with a Notification Sender that fails a finite number of times: it fails only  *)
(* while the clock can still release the retry the failure asks for, or when the  *)
(* failure ends the task.  The beat runs the dispatch for ever, the workers take  *)
(* every task whose time has come, and the clock goes on.                         *)

FallaElEnvio(t) ==
    /\ ticks < MaxTicks \/ ~PuedeReintentar(t.retries)
    /\ TareaEnviar(t, FALSE)

NextEntrega ==
    \/ \E salto \in {countdown, SegDia} : Tick(salto)
    \/ /\ seqCaso = 0
       /\ CrearCaso("ana", "EN_TRAMITACION", Algun(Hoy + dias_anticipacion))
    \/ revisar_alertas_pendientes
    \/ \E t \in BagToSet(tareas) : TareaInicio(t)
    \/ \E t \in BagToSet(tareas) : TareaEnviar(t, TRUE)
    \/ \E t \in BagToSet(tareas) : FallaElEnvio(t)
    \/ \E t \in BagToSet(tareas) : TareaMarcar(t)

SpecEntrega ==
    /\ Init
    /\ [][NextEntrega]_vars
    /\ WF_vars(\E salto \in {countdown, SegDia} : Tick(salto))
    /\ WF_vars(revisar_alertas_pendientes)
    /\ WF_vars(\E t \in BagToSet(tareas) : TareaInicio(t))
    /\ WF_vars(\E t \in BagToSet(tareas) : TareaEnviar(t, TRUE))
    /\ WF_vars(\E t \in BagToSet(tareas) : TareaMarcar(t))
----------------------------------------------------------------------------
(* Send tasks whose alert is deleted while they wait at the broker: by the *)
(* weekly purge, or with its case                                          *)

NextBorrado ==
    \/ \E salto \in {SegDia, DiasRetencion * SegDia} : Tick(salto)
    \/ CrearCaso("ana", "EN_TRAMITACION", Algun(Hoy + dias_anticipacion))
    \/ revisar_alertas_pendientes
    \/ \E t \in BagToSet(tareas) : TareaInicio(t)
    \/ \E t \in BagToSet(tareas), ok \in BOOLEAN : TareaEnviar(t, ok)
    \/ \E t \in BagToSet(tareas) : TareaMarcar(t)
    \/ limpiar_alertas_antiguas
    \/ \E pk \in DOMAIN casos : EliminarCaso(pk)

SpecBorrado == Init /\ [][NextBorrado]_vars
----------------------------------------------------------------------------
(* Runs of the daily scan that overlap each other and the creation of a case *)

NextBarridos ==
    \/ Tick(SegDia)
    \/ \E d \in {dias_anticipacion, dias_anticipacion + 1} :
          Caso_save_insert("ana", "EN_TRAMITACION", Algun(Hoy + d))
    \/ \E p \in procesos : Caso_post_save(p)
    \/ crear_alertas_vencimiento_inicio
    \/ \E p \in procesos : crear_alertas_vencimiento_tiene_alerta(p)
    \/ \E p \in procesos : crear_alertas_vencimiento_create(p)

SpecBarridos == Init /\ [][NextBarridos]_vars
(* Cases under the administrator: the bulk actions of CasoAdmin *)

NextCasosAdmin ==
    \/ Tick(SegDia)
    \/ \E e \in EstadosEntrada, d \in DiasEntrada : CrearCaso("ana", e, Algun(Hoy + d))
    \/ \E pk \in DOMAIN casos : marcar_como_cerrado({pk})
    \/ \E pk \in DOMAIN casos : marcar_urgente({pk})
    \/ \E seleccion \in SUBSET DOMAIN casos : crear_alerta_vencimiento("root", seleccion)

SpecCasosAdmin == Init /\ [][NextCasosAdmin]_vars

----------------------------------------------------------------------------
(* The urgency classifier on an unsaved instance: any due date, any day *)

MaxDia == 3
MaxVencimiento == 12

InitUrg ==
    /\ now \in {d * SegDia : d \in 0..MaxDia}
    /\ ticks = 0
    /\ casos = <<>>
    /\ alertas = <<>>
    /\ movimientos = <<>>
    /\ documentos = <<>>
    /\ procesos = {}
    /\ seqCaso = 0
    /\ seqAlerta = 0
    /\ tareas = EmptyBag
    /\ marcas = <<>>
    /\ \E f \in {Algun(d) : d \in (0 - 2)..MaxVencimiento} \cup {Ninguno} :
          ret = [op |-> "instancia", fecha_vencimiento |-> f]

\* Reading caso.estado_vencimiento of the instance
LeerEstadoVencimiento ==
    /\ ret.op = "instancia"
    /\ ret' = [op |-> "estado_vencimiento", fecha_vencimiento |-> ret.fecha_vencimiento,
               estado |-> estado_vencimiento(ret.fecha_vencimiento, Hoy)]
    /\ UNCHANGED <<now, ticks, casos, alertas, movimientos, documentos, procesos, seqCaso, seqAlerta, tareas, marcas>>

NextUrg == LeerEstadoVencimiento

SpecUrg == InitUrg /\ [][NextUrg]_vars

----------------------------------------------------------------------------
(* Properties *)

AlertasDe(c) == {pk \in DOMAIN alertas : alertas[pk].caso = c}
MovimientosDe(c) == {i \in DOMAIN movimientos : movimientos[i].caso = c}

\* C1: between two resend resets, marcar_como_enviada is executed at most once
\* for an alert, whatever the interleaving of the send tasks enqueued for it.
C1_MarcaUnaVez == \A pk \in DOMAIN marcas : marcas[pk] <= 1

\* C2: two runs of crear_alertas_vencimiento, one after the other within 24
\* hours, leave one alert of the scan for a case, never two: any two alerts the
\* scan created for the same case were created more than 24 hours apart.
C2_UnaAlertaPor24h ==
    \A a, b \in DOMAIN alertas :
        ( /\ a < b
          /\ alertas[a].caso = alertas[b].caso
          /\ alertas[a].mensaje.origen = "tarea"
          /\ alertas[b].mensaje.origen = "tarea" )
        => alertas[b].fecha_creacion - alertas[a].fecha_creacion > SegDia

\* A second run, later on the same day, has just created nothing for a case
\* that is still due in 7 days and got its alert from the earlier run.
C2_Testigo ==
    /\ ret.op = "crear_alertas_vencimiento"
    /\ ret.contador = 0
    /\ \E c \in CasosProximos :
          /\ Cardinality(AlertasDe(c)) = 1
          /\ \A pk \in AlertasDe(c) :
                /\ alertas[pk].mensaje.origen = "tarea"
                /\ alertas[pk].fecha_creacion < now
                /\ alertas[pk].fecha_creacion >= now - SegDia

\* C3: with a Notification Sender that fails on every attempt, a send task
\* gives up with the returned value "Error" after exactly 4 attempts (3 retries),
\* never attempts a fifth time, and the alert is still unsent with no send date.
C3_CuatroIntentos ==
    /\ \A t \in BagToSet(tareas) : t.retries <= 3 /\ t.intentos <= 4
    /\ (ret.op = "enviar_email_alerta" /\ ret.resultado = "Retry")
          => ret.retries < 3 /\ ret.intentos = ret.retries + 1
    /\ (ret.op = "enviar_email_alerta" /\ ret.resultado = "Error")
          => /\ ret.retries = 3
             /\ ret.intentos = 4
             /\ ret.fallos = 4
             /\ ret.alerta \in DOMAIN alertas
             /\ alertas[ret.alerta].enviada = FALSE
             /\ alertas[ret.alerta].fecha_envio = Ninguno

\* A task has just given up on its fourth failed attempt and left the broker.
C3_Testigo ==
    /\ ret.op = "enviar_email_alerta"
    /\ ret.resultado = "Error"
    /\ ret.intentos = 4
    /\ TareasDe(ret.alerta) = {}
    /\ alertas[ret.alerta].enviada = FALSE

\* C4: a row written by Caso.save carries urgente = (due date - today <= 7);
\* a row without a due date is never stored, and a new instance without one
\* keeps urgente = False.
C4_UrgenteAlGuardar ==
    /\ \A pk \in DOMAIN casos : casos[pk].fecha_vencimiento # Ninguno
    /\ (ret.op = "Caso.save" /\ ret.resultado = "ok")
          => casos[ret.pk].urgente = (casos[ret.pk].fecha_vencimiento[1] - Hoy <= 7)
    /\ (ret.op = "Caso.save" /\ ret.resultado = "IntegrityError" /\ ret.created)
          => ret.urgente = FALSE

\* An existing case was just saved with its due date exactly 7 days away.
C4_Testigo ==
    /\ ret.op = "Caso.save"
    /\ ret.resultado = "ok"
    /\ ret.created = FALSE
    /\ casos[ret.pk].fecha_vencimiento = Algun(Hoy + 7)
    /\ casos[ret.pk].urgente = TRUE

\* C5: estado_vencimiento returns sin-fecha without a due date, vencido below 0
\* days, critico for 0..3, urgente for 4..7 and normal above 7: one tier each.
C5_Tramos ==
    ret.op = "estado_vencimiento" =>
        LET f == ret.fecha_vencimiento
            d == f[1] - Hoy
        IN
        /\ ret.estado \in {"sin-fecha", "vencido", "critico", "urgente", "normal"}
        /\ ret.estado = "sin-fecha" <=> f = Ninguno
        /\ f # Ninguno =>
              /\ ret.estado = "vencido" <=> d < 0
              /\ ret.estado = "critico" <=> (0 <= d /\ d <= 3)
              /\ ret.estado = "urgente" <=> (4 <= d /\ d <= 7)
              /\ ret.estado = "normal" <=> d > 7

\* The classifier has answered for a due date 4 days away.
C5_Testigo ==
    /\ ret.op = "estado_vencimiento"
    /\ ret.fecha_vencimiento = Algun(Hoy + 4)
    /\ ret.estado = "urgente"

\* C6: a run of limpiar_alertas_antiguas deletes exactly the alerts that are
\* sent with a send date earlier than now minus 90 days, returns their number,
\* and leaves every other alert (every unsent one included) as it was.
C6_Purga ==
    [][ ret'.op = "limpiar_alertas_antiguas" =>
          LET viejas == {pk \in DOMAIN alertas :
                            /\ alertas[pk].enviada
                            /\ alertas[pk].fecha_envio # Ninguno
                            /\ alertas[pk].fecha_envio[1] < now - 90 * SegDia}
          IN
          /\ DOMAIN alertas' = DOMAIN alertas \ viejas
          /\ \A pk \in DOMAIN alertas' : alertas'[pk] = alertas[pk]
          /\ \A pk \in DOMAIN alertas : ~alertas[pk].enviada => pk \in DOMAIN alertas'
          /\ ret'.contador = Cardinality(viejas) ]_vars

\* A purge has just deleted one of two alerts, and an unsent alert created more
\* than 90 days ago is still there.
C6_Testigo ==
    /\ ret.op = "limpiar_alertas_antiguas"
    /\ ret.contador = 1
    /\ seqAlerta = 2
    /\ \E pk \in DOMAIN alertas :
          /\ alertas[pk].enviada = FALSE
          /\ alertas[pk].fecha_creacion < now - 90 * SegDia

C8_SoloCercanos ==
    [][ \A pk \in DOMAIN alertas' \ DOMAIN alertas :
          LET c == alertas'[pk].caso
              d == casos'[c].fecha_vencimiento[1] - Fecha(now')
          IN
          /\ casos'[c].estado = "EN_TRAMITACION"
          /\ d <= 7
          /\ ret'.op = "crear_alertas_vencimiento" => d = 7 ]_vars

\* The scan has just created the alert of a case that had none, because it was
\* created when its due date was more than 7 days away.
C8_Testigo ==
    /\ ret.op = "crear_alertas_vencimiento"
    /\ ret.contador >= 1
    /\ \E c \in CasosProximos :
          /\ Cardinality(AlertasDe(c)) = 1
          /\ \A pk \in AlertasDe(c) : /\ alertas[pk].mensaje.origen = "tarea"
                                      /\ alertas[pk].fecha_creacion = now

\* C9: a run of revisar_alertas_pendientes enqueues one send task for each alert
\* that is unsent, has enviar_email set and a fire time not later than now, for
\* no other alert, and returns the number of tasks it enqueued.
C9_Despacho ==
    [][ ret'.op = "revisar_alertas_pendientes" =>
          LET debidas == {pk \in DOMAIN alertas :
                             /\ ~alertas[pk].enviada
                             /\ alertas[pk].enviar_email
                             /\ alertas[pk].fecha_alerta <= now}
          IN
          /\ ret'.contador = Cardinality(debidas)
          /\ BagCardinality(tareas') = BagCardinality(tareas) + Cardinality(debidas)
          /\ \A pk \in 1..MaxAlertas :
                CopiesIn(NuevaTarea(pk), tareas') =
                    CopiesIn(NuevaTarea(pk), tareas) + (IF pk \in debidas THEN 1 ELSE 0) ]_vars

\* A dispatch has just enqueued one task and skipped an unsent alert whose fire
\* time has passed but whose enviar_email is off.
C9_Testigo ==
    /\ ret.op = "revisar_alertas_pendientes"
    /\ ret.contador = 1
    /\ \E pk \in DOMAIN alertas :
          /\ alertas[pk].enviar_email = FALSE
          /\ alertas[pk].enviada = FALSE
          /\ alertas[pk].fecha_alerta <= now
          /\ TareasDe(pk) = {}

\* C10: marcar_alerta_leida requested by a user who is neither staff nor the
\* responsible user of the alert's case is refused and changes no alert.
C10_SinPermiso ==
    [][ ( /\ ret'.op = "marcar_alerta_leida"
          /\ ret'.pk \in DOMAIN alertas
          /\ ~Usuarios[ret'.usuario].is_staff
          /\ casos[alertas[ret'.pk].caso].usuario_responsable # ret'.usuario )
        => /\ ret'.resultado = "Http404"
           /\ alertas' = alertas ]_vars

\* A non-staff user was just refused on an unread alert of somebody else's case.
C10_Testigo ==
    /\ ret.op = "marcar_alerta_leida"
    /\ ret.resultado = "Http404"
    /\ ret.pk \in DOMAIN alertas
    /\ ~Usuarios[ret.usuario].is_staff
    /\ casos[alertas[ret.pk].caso].usuario_responsable # ret.usuario
    /\ alertas[ret.pk].leida = FALSE

\* C11: a mark_read, upload or download refused because the user is neither
\* staff nor the responsible user of the case ends with an outcome of its own,
\* different from the Http404 the same handler gives for an id that does not exist.
C11_PermisoDistinto ==
    /\ ( /\ ret.op = "marcar_alerta_leida"
         /\ ret.pk \in DOMAIN alertas
         /\ ~Usuarios[ret.usuario].is_staff
         /\ casos[alertas[ret.pk].caso].usuario_responsable # ret.usuario )
       => ret.resultado \notin {"ok", "Http404"}
    /\ ( /\ ret.op = "SubirDocumentoView"
         /\ ret.pk \in DOMAIN casos
         /\ ~Usuarios[ret.usuario].is_staff
         /\ casos[ret.pk].usuario_responsable # ret.usuario )
       => ret.resultado \notin {"ok", "Http404"}
    /\ ( /\ ret.op = "descargar_documento"
         /\ ret.pk \in DOMAIN documentos
         /\ ~Usuarios[ret.usuario].is_staff
         /\ casos[documentos[ret.pk].caso].usuario_responsable # ret.usuario )
       => ret.resultado \notin {"ok", "Http404"}

\* C12: every alert that is sent has a send date, after any sequence of send
\* tasks, admin 'mark as sent', admin 'resend' and admin edits of the alert.
C12_EnviadaConFecha ==
    \A pk \in DOMAIN alertas : alertas[pk].enviada => alertas[pk].fecha_envio # Ninguno

\* C13: at no time are two calls of the Notification Sender in progress for the
\* same alert, whatever the dispatch enqueues and however many workers run.
C13_EnviosEnSerie ==
    \A pk \in DOMAIN alertas :
        LET enviando == {t \in BagToSet(tareas) : t.alerta = pk /\ t.pc = "enviando"}
        IN BagCardinality([t \in enviando |-> CopiesIn(t, tareas)]) <= 1

\* The alert has no explicit recipient and its case's responsible user no email
SinDestinatario(pk) ==
    /\ alertas[pk].email_destinatario = ""
    /\ Usuarios[casos[alertas[pk].caso].usuario_responsable].email = ""

\* C14: when a worker takes a send task of an unsent alert that has no explicit
\* recipient and whose responsible user has no email, the task returns 'Sin
\* email destinatario' (it does not raise), leaves the broker without a call of
\* the sender and without a retry, and the alert stays unsent with no send date.
C14_SinDestinatario ==
    [][ \A t \in BagToSet(tareas) :
          ( /\ t.pc = "cola"
            /\ CopiesIn(t, tareas') < CopiesIn(t, tareas)
            /\ t.alerta \in DOMAIN alertas
            /\ alertas[t.alerta].enviada = FALSE
            /\ SinDestinatario(t.alerta) )
          => /\ ret'.op = "enviar_email_alerta"
             /\ ret'.alerta = t.alerta
             /\ ret'.resultado = "Sin email destinatario"
             /\ ret'.intentos = t.intentos
             /\ tareas' = tareas (-) SetToBag({t})
             /\ alertas' = alertas
             /\ alertas'[t.alerta].enviada = FALSE
             /\ alertas'[t.alerta].fecha_envio = Ninguno ]_vars

\* A send task of an alert without recipient has just ended; no task of that
\* alert is left and the alert is still pending.
C14_Testigo ==
    /\ ret.op = "enviar_email_alerta"
    /\ ret.resultado = "Sin email destinatario"
    /\ ret.intentos = 0
    /\ SinDestinatario(ret.alerta)
    /\ TareasDe(ret.alerta) = {}
    /\ alertas[ret.alerta].enviada = FALSE
    /\ alertas[ret.alerta].fecha_envio = Ninguno

\* C15: the send tasks enqueued for an alert without resolvable recipient are
\* bounded in number: from some run of the dispatch on, no run enqueues a task
\* for such an alert any more.
C15_EncoladoAcotado ==
    <>[][ ~ ( /\ ret'.op = "revisar_alertas_pendientes"
              /\ \E pk \in DOMAIN alertas :
                    /\ SinDestinatario(pk)
                    /\ CopiesIn(NuevaTarea(pk), tareas') > CopiesIn(NuevaTarea(pk), tareas) ) ]_vars

\* C16: a run of crear_alertas_vencimiento in which the creation of one case's
\* alert fails still creates the alert of every other EN_TRAMITACION case that is
\* due in 7 days and has no alert of the last 24 hours.
C16_LoteCompleto ==
    [][ ret'.op = "crear_alertas_vencimiento" =>
          \A c \in DOMAIN casos :
              ( /\ casos[c].estado = "EN_TRAMITACION"
                /\ casos[c].fecha_vencimiento = Algun(Hoy + 7)
                /\ ~ \E a \in DOMAIN alertas : /\ alertas[a].caso = c
                                               /\ alertas[a].tipo = "VENCIMIENTO"
                                               /\ alertas[a].fecha_creacion >= now - SegDia
                /\ ~ ("error" \in DOMAIN ret' /\ ret'.error = c) )
              => \E a \in DOMAIN alertas' \ DOMAIN alertas : alertas'[a].caso = c ]_vars

\* C17: a CasoForm submitted, at creation or edit, with a due date earlier than
\* the filing date or earlier than today is rejected with a validation error (or
\* the case is not the user's to edit) and changes no row; an AlertaForm
\* submitted with a fire time earlier than now is rejected and adds no alert.
C17_FechasRechazadas ==
    [][ /\ ( /\ ret'.op = "CasoForm"
             /\ \/ ret'.datos.fecha_vencimiento[1] < ret'.datos.fecha_presentacion[1]
                \/ ret'.datos.fecha_vencimiento[1] < Hoy )
           => /\ ret'.resultado \in {"ValidationError", "Http404"}
              /\ ret'.created => ret'.resultado = "ValidationError"
              /\ casos' = casos
              /\ alertas' = alertas
              /\ movimientos' = movimientos
        /\ ( /\ ret'.op = "AlertaForm"
             /\ ret'.fecha_alerta[1] < now )
           => /\ ret'.resultado = "ValidationError"
              /\ alertas' = alertas ]_vars

\* An edit of the user's own case with a due date of yesterday (later than the
\* filing date) was just rejected, and the stored case keeps its due date.
C17_Testigo ==
    /\ ret.op = "CasoForm"
    /\ ret.created = FALSE
    /\ ret.resultado = "ValidationError"
    /\ ret.datos.fecha_vencimiento = Algun(Hoy - 1)
    /\ ret.datos.fecha_presentacion = Algun(Hoy - 2)
    /\ ret.pk \in DOMAIN casos
    /\ casos[ret.pk].fecha_vencimiento[1] > Hoy
    /\ \E a \in DOMAIN alertas : alertas[a].mensaje.origen = "formulario"

\* C18: every stored case that was created or edited through CasoForm has a rol
\* of the format letter-number-year.
C18_RolConFormato ==
    \A pk \in DOMAIN casos : "rol" \in DOMAIN casos[pk] => validar_rol_caso(casos[pk].rol)

\* The cases a user may see: all of them for staff, else those the user is
\* responsible for
CasosPermitidos(usuario) ==
    IF Usuarios[usuario].is_staff
    THEN DOMAIN casos
    ELSE {c \in DOMAIN casos : casos[c].usuario_responsable = usuario}

\* C19: the case list, case detail, case edit, alert list, dashboard and chart
\* APIs expose to a non-staff user only the user's own cases and the alerts,
\* movements and documents of those cases, an upload or download succeeds only
\* on such a case, and a staff user gets all cases and all alerts.
C19_Visibilidad ==
    /\ ret.op = "vista" =>
          /\ ret.casos \subseteq CasosPermitidos(ret.usuario)
          /\ \A a \in ret.alertas : alertas[a].caso \in CasosPermitidos(ret.usuario)
          /\ \A i \in ret.movimientos : movimientos[i].caso \in CasosPermitidos(ret.usuario)
          /\ \A d \in ret.documentos : documentos[d].caso \in CasosPermitidos(ret.usuario)
          /\ ( /\ Usuarios[ret.usuario].is_staff
               /\ ret.vista \in {"CasoListView", "DashboardView", "casos_por_estado_api"} )
             => ret.casos = DOMAIN casos
          /\ (Usuarios[ret.usuario].is_staff /\ ret.vista = "AlertaListView")
             => ret.alertas = DOMAIN alertas
    /\ (ret.op = "SubirDocumentoView" /\ ret.resultado = "ok")
          => ret.pk \in CasosPermitidos(ret.usuario)
    /\ (ret.op = "descargar_documento" /\ ret.resultado = "ok")
          => documentos[ret.pk].caso \in CasosPermitidos(ret.usuario)

\* Two users have a case each, and the case list of one of them, who is not
\* staff, has just shown that user's case alone.
C19_Testigo ==
    /\ ret.op = "vista"
    /\ ret.vista = "CasoListView"
    /\ ~Usuarios[ret.usuario].is_staff
    /\ Cardinality(ret.casos) = 1
    /\ \E c \in DOMAIN casos : casos[c].usuario_responsable # ret.usuario

\* C20: a permitted marcar_alerta_leida sets leida and changes nothing else of
\* the alert; a step of a send task, the admin action 'mark as sent' and the admin
\* resend reset change nothing but enviada and fecha_envio, and never leida.
C20_LeidaIndependiente ==
    [][ /\ (ret'.op = "marcar_alerta_leida" /\ ret'.resultado = "ok")
           => /\ alertas' = [alertas EXCEPT ![ret'.pk].leida = TRUE]
              /\ alertas'[ret'.pk].enviada = alertas[ret'.pk].enviada
              /\ alertas'[ret'.pk].fecha_envio = alertas[ret'.pk].fecha_envio
        /\ ret'.op \in {"enviar_email_alerta", "worker", "marcar_como_enviadas",
                        "reenviar_alertas"}
           => /\ DOMAIN alertas' = DOMAIN alertas
              /\ \A pk \in DOMAIN alertas :
                    /\ alertas'[pk].leida = alertas[pk].leida
                    /\ [alertas'[pk] EXCEPT !.enviada = alertas[pk].enviada,
                                            !.fecha_envio = alertas[pk].fecha_envio]
                          = alertas[pk] ]_vars

\* The admin action has just marked as sent an alert that had been read, and
\* the alert is still read.
C20_Testigo ==
    /\ ret.op = "marcar_como_enviadas"
    /\ \E pk \in DOMAIN alertas :
          /\ alertas[pk].leida = TRUE
          /\ alertas[pk].enviada = TRUE
          /\ alertas[pk].fecha_envio = Algun(now)
          /\ marcas[pk] = 1

\* C21: after every operation that writes a case (a save, or the admin bulk
\* actions 'mark as closed' and 'mark as urgent'), the stored urgente of each
\* case written equals (due date - today <= 7).
C21_UrgenteTrasEscribir ==
    /\ (ret.op = "Caso.save" /\ ret.resultado = "ok")
          => casos[ret.pk].urgente = (casos[ret.pk].fecha_vencimiento[1] - Hoy <= 7)
    /\ ret.op \in {"marcar_como_cerrado", "marcar_urgente"}
          => \A pk \in ret.seleccion :
                casos[pk].urgente = (casos[pk].fecha_vencimiento[1] - Hoy <= 7)

\* C22: when a worker takes a send task (a first attempt or a retry) of an alert
\* that is already sent, the task returns 'Alerta ya enviada' at once: it leaves
\* the broker without a call of the sender and without a retry, and the alert's
\* sent flag and send date are as they were.
C22_YaEnviada ==
    [][ \A t \in BagToSet(tareas) :
          ( /\ t.pc = "cola"
            /\ CopiesIn(t, tareas') < CopiesIn(t, tareas)
            /\ t.alerta \in DOMAIN alertas
            /\ alertas[t.alerta].enviada )
          => /\ ret' = Resultado(t, "Alerta ya enviada")
             /\ ret'.intentos = t.intentos
             /\ tareas' = tareas (-) SetToBag({t})
             /\ alertas' = alertas
             /\ marcas' = marcas ]_vars

\* A retry has just found its alert sent by another task in the meantime.
C22_Testigo ==
    /\ ret.op = "enviar_email_alerta"
    /\ ret.resultado = "Alerta ya enviada"
    /\ ret.retries >= 1
    /\ ret.fallos >= 1
    /\ alertas[ret.alerta].enviada
    /\ marcas[ret.alerta] = 1

\* C23: between two resend resets the Notification Sender delivers the email of
\* an alert at most once, whatever the interleaving of the send tasks: the
\* deliveries already marked on the alert and the deliveries whose mark step is
\* still to come are never more than one together.
C23_UnaEntrega ==
    \A pk \in DOMAIN alertas :
        LET entregadas == {t \in BagToSet(tareas) : t.alerta = pk /\ t.pc = "marcar"}
        IN marcas[pk] + BagCardinality([t \in entregadas |-> CopiesIn(t, tareas)]) <= 1

\* C29: under fair scheduling of the dispatch and of the send tasks, with a
\* sender that eventually succeeds, every alert that has enviar_email set, whose
\* fire time is reached and whose recipient can be resolved is eventually marked
\* sent, also after an earlier task has given up on its fourth failed attempt.
C29_AlFinalEnviada ==
    \A pk \in 1..MaxAlertas :
        ( /\ pk \in DOMAIN alertas
          /\ alertas[pk].enviar_email
          /\ alertas[pk].fecha_alerta <= now
          /\ Destinatario(pk) # "" )
        ~> ( pk \in DOMAIN alertas /\ alertas[pk].enviada )

\* A task has given up after four failed attempts; the alert is pending, with a
\* recipient, and no task is left for it: only a later dispatch can deliver it.
C29_Testigo ==
    /\ ret.op = "enviar_email_alerta"
    /\ ret.resultado = "Error"
    /\ ret.fallos = 4
    /\ ret.alerta \in AlertasPendientes
    /\ Destinatario(ret.alerta) # ""
    /\ tareas = EmptyBag

\* C30: when a worker takes a send task whose alert has been deleted since the
\* task was enqueued (by the purge, or by cascade with its case), the task
\* returns 'Alerta no encontrada': it does not raise, it is not retried, the
\* sender is not called and no stored record changes.
C30_AlertaBorrada ==
    [][ \A t \in BagToSet(tareas) :
          ( /\ t.pc = "cola"
            /\ CopiesIn(t, tareas') < CopiesIn(t, tareas)
            /\ t.alerta \notin DOMAIN alertas )
          => /\ ret' = Resultado(t, "Alerta no encontrada")
             /\ ret'.intentos = t.intentos
             /\ tareas' = tareas (-) SetToBag({t})
             /\ UNCHANGED <<casos, alertas, movimientos, documentos, marcas>> ]_vars

\* A task enqueued for an alert has just ended 'not found' without an attempt,
\* after the alert went away with its case.
C30_Testigo ==
    /\ ret.op = "enviar_email_alerta"
    /\ ret.resultado = "Alerta no encontrada"
    /\ ret.intentos = 0
    /\ ret.retries = 0
    /\ ret.alerta \notin DOMAIN alertas
    /\ seqCaso >= 1
    /\ \A a \in DOMAIN alertas : alertas[a].caso \in DOMAIN casos
    /\ Cardinality(DOMAIN casos) < seqCaso

\* C26: once crear_alertas_vencimiento has run, every case that is
\* EN_TRAMITACION and due in 0 to 7 days has at least one Vencimiento alert,
\* also when an edit brought the case into that window.
C26_VentanaCubierta ==
    (ret.op = "crear_alertas_vencimiento" /\ "resultado" \notin DOMAIN ret) =>
        \A c \in DOMAIN casos :
            ( /\ casos[c].estado = "EN_TRAMITACION"
              /\ casos[c].fecha_vencimiento[1] - Hoy >= 0
              /\ casos[c].fecha_vencimiento[1] - Hoy <= dias_anticipacion )
            => \E pk \in AlertasDe(c) : alertas[pk].tipo = "VENCIMIENTO"

C27_AlertaPorSeleccionado ==
    [][ ret'.op = "crear_alerta_vencimiento" =>
          LET deben == {c \in ret'.seleccion :
                           /\ casos[c].fecha_vencimiento[1] - Hoy <= 7
                           /\ ~ \E a \in AlertasDe(c) :
                                   /\ alertas[a].tipo = "VENCIMIENTO"
                                   /\ Fecha(alertas[a].fecha_alerta) >= Hoy}
              nuevas == DOMAIN alertas' \ DOMAIN alertas
          IN
          /\ \A c \in DOMAIN casos :
                Cardinality({pk \in nuevas : /\ alertas'[pk].caso = c
                                             /\ alertas'[pk].tipo = "VENCIMIENTO"})
                   = IF c \in deben THEN 1 ELSE 0
          /\ \A pk \in nuevas : alertas'[pk].caso \in deben
          /\ ret'.alertas_creadas = Cardinality(nuevas) ]_vars

\* C24: a run of crear_alertas_vencimiento that has made its existence check
\* for a case creates the alert of that case whatever has been stored since the
\* check; two runs that interleave, each checking before the other creates, both
\* create a Vencimiento alert for the same case, within the same 24 hours.
C24_CrearTrasVerificar ==
    [][ \A p \in procesos :
          ( /\ p.op = "crear_alertas_vencimiento"
            /\ p.pc = "create"
            /\ p \notin procesos' )
          => /\ DOMAIN alertas' \ DOMAIN alertas = {seqAlerta + 1}
             /\ alertas'[seqAlerta + 1] = AlertaDeTarea(Head(p.cola), now)
             /\ \A pk \in DOMAIN alertas : alertas'[pk] = alertas[pk] ]_vars

\* Two runs have each created a Vencimiento alert for the same case within 24
\* hours of each other, and both are over.
C24_Testigo ==
    /\ Barridos = {}
    /\ ret.op = "crear_alertas_vencimiento"
    /\ ret.contador = 1
    /\ \E a, b \in DOMAIN alertas :
          /\ a < b
          /\ alertas[a].caso = alertas[b].caso
          /\ alertas[a].tipo = "VENCIMIENTO" /\ alertas[b].tipo = "VENCIMIENTO"
          /\ alertas[a].mensaje.origen = "tarea" /\ alertas[b].mensaje.origen = "tarea"
          /\ alertas[b].fecha_creacion - alertas[a].fecha_creacion < SegDia

====
